---- MODULE Spec2Model ----
(***************************************************************************)
(* EdgeFunctionsRegistry (src/src/lib/edge-functions/registry.mjs) as a    *)
(* state machine.  JavaScript is single threaded: every handler runs       *)
(* without interruption up to its next `await` of a collaborator           *)
(* (bundler.find, runIsolate, getUpdatedConfig), so one action is one      *)
(* such run-to-completion segment, and the collaborators' answers are the  *)
(* nondeterministic inputs.                                                *)
(***************************************************************************)
EXTENDS Integers, Sequences, FiniteSets, TLC

VARIABLES
  functions,              \* this.functions : EdgeFunction[]
  declarationsFromConfig, \* this.declarationsFromConfig
  declarationsFromSource, \* this.declarationsFromSource
  functionPaths,          \* this.functionPaths : Map path -> name
  dependencyPaths,        \* this.dependencyPaths : Map path -> name[]
  buildError,             \* this.buildError
  initialScan,            \* this.initialScan, the promise of scan(directories)
  initialization,         \* this.initialization (0 is undefined, else a promise id)
  promises,               \* number of initialization promises created so far
  initReturned,           \* the promises initialize() has returned to its callers
  initBuilds,             \* builds invoked by the initializer's then-callback
  tasks,                  \* the suspended handler invocations
  notifications,          \* what the latest step logged
  last,                   \* what the latest step did (operation, builds invoked, outcome)
  degraded,               \* the latest successful build carried no graph
  events,                 \* watcher events delivered so far
  merged,                 \* result of the latest mergeDeclarations() call
  envConfig,              \* opts.env, the constructor's environment argument
  env,                    \* this.env
  matches,                \* the suspended matchURLPath invocations
  matched                 \* what the latest step returned, when it ended a matchURLPath call

vars == <<functions, declarationsFromConfig, declarationsFromSource, functionPaths,
          dependencyPaths, buildError, initialScan, initialization, promises,
          initReturned, initBuilds, tasks, notifications, last, degraded, events,
          merged, envConfig, env, matches, matched>>

(***************************************************************************)
(* Bounds of the model.                                                    *)
(***************************************************************************)
MaxTasks == 2

MaxEvents == 2

MaxPromises == 2

MaxDecls == 2

MaxMatches == 1

(***************************************************************************)
(* Values.                                                                 *)
(***************************************************************************)
NoError == "null"

BuildErrorValue == "Build error"

IsolateThrown == "runIsolate rejected"

EmptyMap == [p \in {} |-> ""]

EmptyObject == [k \in {} |-> ""]

Range(s) == {s[i] : i \in DOMAIN s}

\* { ...a, ...b }: the fields of both, b's value where both have the field.
Spread(a, b) == [k \in (DOMAIN a) \cup (DOMAIN b) |-> IF k \in DOMAIN b THEN b[k] ELSE a[k]]

FA == [name |-> "a", path |-> "/a.ts"]

FA2 == [name |-> "a", path |-> "/dir2/a.ts"]

FB == [name |-> "b", path |-> "/b.ts"]

\* What bundler.find may resolve to.
FinderResults == {<<FA>>, <<FA2, FB>>}

DeclA == [function |-> "a", path |-> "/a"]

DeclB == [function |-> "b", pattern |-> "^/b$"]

DeclI == [function |-> "i", path |-> "/i"]

\* opts.internalFunctions
internalFunctions == <<DeclI>>

\* The config objects: opts.config and what getUpdatedConfig resolves to.
Configs == {EmptyObject, [edge_functions |-> <<DeclA, DeclB>>]}

\* The paths the project watcher reports as changed.
ChangePaths == {"/a.ts", "/x.ts"}

(***************************************************************************)
(* The build collaborator, runIsolate(functions, env, {getFunctionsConfig}) *)
(* A URL is its scheme and its path: 'file:///a.ts' is ["file", "/a.ts"].   *)
(***************************************************************************)
FileURL(path) == [scheme |-> "file", path |-> path]

NpmURL == [scheme |-> "npm", path |-> "lib"]

\* specifier.startsWith('file://')
startsWithFile(specifier) == specifier.scheme = "file"

fileURLToPath(url) == url.path

\* The imports of each source file: both a.ts import dep.ts, one of them a
\* package too; b.ts imports dep.ts and /a.ts, has a types-only import and one
\* without a specifier.
Imports(path) ==
  CASE path = "/a.ts" -> <<[code |-> [specifier |-> FileURL("/dep.ts")]],
                           [code |-> [specifier |-> NpmURL]]>>
    [] path = "/dir2/a.ts" -> <<[code |-> [specifier |-> FileURL("/dep.ts")]]>>
    [] path = "/b.ts" -> <<[types |-> [specifier |-> FileURL("/types.d.ts")]],
                           [code |-> [specifier |-> FileURL("/dep.ts")]],
                           [code |-> [specifier |-> FileURL("/a.ts")]],
                           [code |-> EmptyObject]>>
    [] path = "/dep.ts" -> <<[code |-> [specifier |-> FileURL("/util.ts")]]>>
    [] OTHER -> <<>>

\* The module graph of a build of fns: one module per function file, then the
\* modules they import.
GraphFor(fns) ==
  [modules |->
     [i \in DOMAIN fns |-> [specifier |-> FileURL(fns[i].path),
                            dependencies |-> Imports(fns[i].path)]]
     \o <<[specifier |-> FileURL("/dep.ts"), dependencies |-> Imports("/dep.ts")],
          [specifier |-> NpmURL, dependencies |-> <<>>]>>]

\* The in-source config (`export const config`) of each function: a declares
\* a path, b only a cache mode.
InSourceConfig(name) ==
  CASE name = "a" -> [path |-> "/a-src"]
    [] name = "b" -> [cache |-> "manual"]
    [] OTHER -> EmptyObject

FunctionsConfig(fns) == [i \in DOMAIN fns |-> InSourceConfig(fns[i].name)]

\* What runIsolate may resolve to: a failure, or a success with the
\* functions' configs, with or without a graph.
IsolateResults(fns) ==
  {[success |-> FALSE],
   [success |-> TRUE, functionsConfig |-> FunctionsConfig(fns)],
   [success |-> TRUE, functionsConfig |-> FunctionsConfig(fns), graph |-> GraphFor(fns)]}

\* How a runIsolate call ended: it threw, reported a failure, or succeeded.
Settlement(outcome) ==
  IF outcome.settled = "rejected" THEN "rejected"
  ELSE IF outcome.value.success THEN "succeeded" ELSE "failed"

\* How the promise of runIsolate settles.
IsolateOutcomes(fns) ==
  {[settled |-> "rejected"]} \cup {[settled |-> "resolved", value |-> r] : r \in IsolateResults(fns)}

(***************************************************************************)
(* getDeclarationsFromConfig, lines 200-208.                               *)
(***************************************************************************)
getDeclarationsFromConfig(config) ==
  LET userFunctions == IF "edge_functions" \in DOMAIN config THEN config.edge_functions ELSE <<>>
  IN userFunctions \o internalFunctions

(***************************************************************************)
(* getEnvironmentVariables, lines 210-226.  envConfig maps a variable's    *)
(* name to its value and the sources that define it.                       *)
(***************************************************************************)
\* The sources a variable of the site may come from.
SourceLists ==
  {<<>>, <<"general">>, <<"ui">>, <<"account">>, <<"addons">>, <<"general", "internal">>}

EnvKeys == {"API_KEY", "HOME", "DENO_REGION"}

\* The values of opts.env: any of the keys, each with any of the source lists.
EnvConfigs ==
  UNION {[keys -> {[value |-> "set", sources |-> sources] : sources \in SourceLists}] :
           keys \in SUBSET EnvKeys}

\* opts.env of the registry whose events are followed.
SiteEnvConfig ==
  [k \in {"API_KEY", "HOME"} |->
     IF k = "API_KEY" THEN [value |-> "set", sources |-> <<"ui">>]
     ELSE [value |-> "set", sources |-> <<"general">>]]

\* variable.sources.includes(source)
includes(sources, source) == \E i \in DOMAIN sources : sources[i] = source

\* Mutant of fromRuntimeSource: internal variables are left out.
fromRuntimeSourceNoInternal(variable) ==
  \/ includes(variable.sources, "ui")
  \/ includes(variable.sources, "account")
  \/ includes(variable.sources, "addons")

\* The condition of lines 213-218.
fromRuntimeSource(variable) ==
  \/ includes(variable.sources, "ui")
  \/ includes(variable.sources, "account")
  \/ includes(variable.sources, "addons")
  \/ includes(variable.sources, "internal")

getEnvironmentVariables(config) ==
  LET kept == {key \in DOMAIN config : fromRuntimeSource(config[key])}
  IN [key \in kept \cup {"DENO_REGION"} |->
        IF key = "DENO_REGION" THEN "local" ELSE config[key].value]

(***************************************************************************)
(* mergeDeclarations, lines 345-361.                                       *)
(***************************************************************************)
\* declarations.findIndex(({function: func}) => func === name); 0 is JavaScript's -1.
findIndex(declarations, name) ==
  IF \E i \in DOMAIN declarations : declarations[i].function = name
    THEN CHOOSE i \in DOMAIN declarations :
           /\ declarations[i].function = name
           /\ \A j \in DOMAIN declarations : declarations[j].function = name => i <= j
    ELSE 0

\* One pass of the forEach over declarationsFromSource, from its k-th element on.
RECURSIVE mergeEach(_, _, _)
mergeEach(declarations, source, k) ==
  IF k > Len(source) THEN declarations
  ELSE LET declarationFromSource == source[k]
           index == findIndex(declarations, declarationFromSource.function)
       IN mergeEach(IF index = 0
                      THEN Append(declarations, declarationFromSource)
                      ELSE [declarations EXCEPT ![index] = Spread(@, declarationFromSource)],
                    source, k + 1)

\* Mutant of routable: only a path makes a declaration routable.
routablePathOnly(declaration) == "path" \in DOMAIN declaration

\* 'path' in declaration || 'pattern' in declaration
routable(declaration) == "path" \in DOMAIN declaration \/ "pattern" \in DOMAIN declaration

\* Mutant of mergeDeclarations: on a conflict the config's field wins.
RECURSIVE mergeEachConfigFirst(_, _, _)
mergeEachConfigFirst(declarations, source, k) ==
  IF k > Len(source) THEN declarations
  ELSE LET index == findIndex(declarations, source[k].function)
       IN mergeEachConfigFirst(IF index = 0
                                 THEN Append(declarations, source[k])
                                 ELSE [declarations EXCEPT ![index] = Spread(source[k], @)],
                               source, k + 1)

mergeDeclarationsConfigWins(config, source) ==
  SelectSeq(mergeEachConfigFirst(config, source, 1), routable)

mergeDeclarations(config, source) ==
  SelectSeq(mergeEach(config, source, 1), routable)

(***************************************************************************)
(* processGraph, lines 363-412.                                            *)
(***************************************************************************)
\* new Map(Array.from(fns, (func) => [func.path, func.name])): a later entry
\* of the same path replaces an earlier one.
pathsToNames(fns) ==
  [p \in {fns[i].path : i \in DOMAIN fns} |->
     fns[CHOOSE i \in DOMAIN fns :
           fns[i].path = p /\ \A j \in DOMAIN fns : fns[j].path = p => j <= i].name]

\* dependencyPaths.set(path, [...(dependencyPaths.get(path) || []), name])
appendDependent(deps, path, name) ==
  [p \in (DOMAIN deps) \cup {path} |->
     IF p = path THEN (IF p \in DOMAIN deps THEN deps[p] ELSE <<>>) \o <<name>> ELSE deps[p]]

\* Mutant of localDependency: the scheme of the specifier is not looked at.
localDependencyAnyScheme(dependency) ==
  /\ "code" \in DOMAIN dependency
  /\ "specifier" \in DOMAIN dependency.code

\* The dependency is a local file: it has code, with a file: specifier.
localDependency(dependency) ==
  /\ "code" \in DOMAIN dependency
  /\ "specifier" \in DOMAIN dependency.code
  /\ startsWithFile(dependency.code.specifier)

RECURSIVE eachDependency(_, _, _, _)
eachDependency(deps, dependencies, k, functionMatch) ==
  IF k > Len(dependencies) THEN deps
  ELSE eachDependency(
         IF localDependency(dependencies[k])
           THEN appendDependent(deps, fileURLToPath(dependencies[k].code.specifier), functionMatch)
           ELSE deps,
         dependencies, k + 1, functionMatch)

RECURSIVE eachModule(_, _, _, _)
eachModule(deps, modules, k, paths) ==
  IF k > Len(modules) THEN deps
  ELSE LET module == modules[k]
           own == /\ startsWithFile(module.specifier)
                  /\ fileURLToPath(module.specifier) \in DOMAIN paths
       IN eachModule(
            IF own
              THEN eachDependency(deps, module.dependencies, 1,
                                  paths[fileURLToPath(module.specifier)])
              ELSE deps,
            modules, k + 1, paths)

\* Mutant of processGraph: without a graph the indexes are emptied.
processGraphClearing(result, this) ==
  IF "graph" \notin DOMAIN result
    THEN [functionPaths |-> EmptyMap, dependencyPaths |-> EmptyMap]
    ELSE LET paths == pathsToNames(this.functions)
         IN [functionPaths |-> paths,
             dependencyPaths |-> eachModule(EmptyMap, result.graph.modules, 1, paths)]

\* The indexes after processGraph(result.graph): unchanged without a graph,
\* else both rebuilt from this.functions and the graph.
processGraph(result, this) ==
  IF "graph" \notin DOMAIN result
    THEN [functionPaths |-> this.functionPaths, dependencyPaths |-> this.dependencyPaths]
    ELSE LET paths == pathsToNames(this.functions)
         IN [functionPaths |-> paths,
             dependencyPaths |-> eachModule(EmptyMap, result.graph.modules, 1, paths)]

(***************************************************************************)
(* The registry's fields, as the methods below read them.                  *)
(***************************************************************************)
Registry ==
  [functions |-> functions,
   declarationsFromConfig |-> declarationsFromConfig,
   declarationsFromSource |-> declarationsFromSource,
   functionPaths |-> functionPaths,
   dependencyPaths |-> dependencyPaths,
   buildError |-> buildError]

\* Mutant of build (defined below): declarationsFromSource is assigned before
\* the result's success is looked at.
buildAssigningFirst(outcome, fns, this) ==
  IF outcome.settled = "rejected"
    THEN [this |-> [this EXCEPT !.buildError = IsolateThrown], thrown |-> IsolateThrown]
  ELSE IF ~outcome.value.success
    THEN [this |-> [this EXCEPT !.buildError = BuildErrorValue,
                                !.declarationsFromSource =
                                   [i \in DOMAIN fns |-> [function |-> fns[i].name]]],
          thrown |-> BuildErrorValue]
  ELSE LET result == outcome.value
           assigned == [this EXCEPT
                          !.buildError = NoError,
                          !.declarationsFromSource =
                             [i \in DOMAIN fns |->
                                Spread([function |-> fns[i].name], result.functionsConfig[i])]]
           indexes == processGraph(result, assigned)
       IN [this |-> [assigned EXCEPT !.functionPaths = indexes.functionPaths,
                                     !.dependencyPaths = indexes.dependencyPaths],
           thrown |-> NoError]

(***************************************************************************)
(* build, lines 134-153, from the moment runIsolate settles: the fields    *)
(* it leaves and the error it rethrows (NoError when it returns).          *)
(***************************************************************************)
build(outcome, fns, this) ==
  IF outcome.settled = "rejected"
    THEN [this |-> [this EXCEPT !.buildError = IsolateThrown], thrown |-> IsolateThrown]
  ELSE IF ~outcome.value.success
    THEN [this |-> [this EXCEPT !.buildError = BuildErrorValue], thrown |-> BuildErrorValue]
  ELSE LET result == outcome.value
           assigned == [this EXCEPT
                          !.buildError = NoError,
                          !.declarationsFromSource =
                             [i \in DOMAIN fns |->
                                Spread([function |-> fns[i].name], result.functionsConfig[i])]]
           indexes == processGraph(result, assigned)
       IN [this |-> [assigned EXCEPT !.functionPaths = indexes.functionPaths,
                                     !.dependencyPaths = indexes.dependencyPaths],
           thrown |-> NoError]

(***************************************************************************)
(* checkForAddedOrDeletedFunctions, lines 155-198.                         *)
(***************************************************************************)
sameFunction(f, g) == f.name = g.name /\ f.path = g.path

\* Mutant of newFunctions: a function is new whether or not it is declared.
newFunctionsUndeclaredToo(functionsFound, this) ==
  SelectSeq(functionsFound,
            LAMBDA func :
              ~\E i \in DOMAIN this.functions : sameFunction(func, this.functions[i]))

newFunctions(functionsFound, this) ==
  SelectSeq(functionsFound,
            LAMBDA func :
              /\ ~\E i \in DOMAIN this.functions : sameFunction(func, this.functions[i])
              /\ \E d \in DOMAIN this.declarationsFromConfig :
                   this.declarationsFromConfig[d].function = func.name)

deletedFunctions(functionsFound, this) ==
  SelectSeq(this.functions,
            LAMBDA existingFunc :
              ~\E i \in DOMAIN functionsFound : sameFunction(functionsFound[i], existingFunc))

\* Line 181: nothing was added or deleted, return without building.
nothingToDo(added, deleted) == Len(added) = 0 /\ Len(deleted) = 0

(***************************************************************************)
(* handleFileChange, lines 228-258.                                        *)
(***************************************************************************)
\* [...s] of new Set(s): the first occurrence of each element, in order.
RECURSIVE unique(_)
unique(s) ==
  IF s = <<>> THEN <<>>
  ELSE LET front == unique(SubSeq(s, 1, Len(s) - 1))
       IN IF s[Len(s)] \in Range(front) THEN front ELSE Append(front, s[Len(s)])

matchingFunctions(path, this) ==
  unique((IF path \in DOMAIN this.functionPaths THEN <<this.functionPaths[path]>> ELSE <<>>)
         \o (IF path \in DOMAIN this.dependencyPaths THEN this.dependencyPaths[path] ELSE <<>>))

\* Mutant of irrelevantChange: the build error is not looked at.
irrelevantChangeIgnoringError(matching, this) == Len(matching) = 0

\* Mutant of irrelevantChange: the test of the build error is inverted.
irrelevantChangeInverted(matching, this) == Len(matching) = 0 /\ this.buildError # NoError

\* Line 237: the file belongs to no function and no build failed, return.
irrelevantChange(matching, this) == Len(matching) = 0 /\ this.buildError = NoError

(***************************************************************************)
(* initialize, lines 260-275: this.initialization || initialScan.then(...) *)
(***************************************************************************)
\* Mutant of initializationOr: no memoization, every call chains a new promise.
initializationAlwaysFresh(current, fresh) == fresh

initializationOr(current, fresh) == IF current # 0 THEN current ELSE fresh

(***************************************************************************)
(* Notifications (log and warn).                                           *)
(***************************************************************************)
Note(type, name) == [type |-> type, name |-> name]

logAddedFunction(funcs) == [i \in DOMAIN funcs |-> Note("added", funcs[i].name)]

logDeletedFunction(funcs) == [i \in DOMAIN funcs |-> Note("removed", funcs[i].name)]

\* processGraph's warning, line 365.
graphWarning(outcome, thrown) ==
  IF thrown = NoError /\ "graph" \notin DOMAIN outcome.value
    THEN <<Note("warn", "graph")>> ELSE <<>>

\* Mutant of afterBuild (defined below): the added functions are logged before
\* the deleted ones.
afterBuildAddedFirst(task, thrown) ==
  CASE task.kind = "initialize" ->
         [notifications |-> <<>>, rejected |-> FALSE]
    [] task.kind = "checkForAddedOrDeletedFunctions" ->
         [notifications |-> IF thrown = NoError
                              THEN logAddedFunction(task.added) \o logDeletedFunction(task.deleted)
                              ELSE <<>>,
          rejected |-> FALSE]
    [] task.kind = "handleFileChange" ->
         [notifications |-> IF thrown # NoError THEN <<Note("failed", "")>>
                            ELSE IF Len(task.matching) = 0 THEN <<Note("reloaded", "")>>
                            ELSE [i \in DOMAIN task.matching |-> Note("reloaded", task.matching[i])],
          rejected |-> FALSE]

\* Mutant of afterBuild (defined below): handleFileChange logs the failure and
\* rethrows it.
afterBuildRethrowing(task, thrown) ==
  CASE task.kind = "initialize" ->
         [notifications |-> <<>>, rejected |-> FALSE]
    [] task.kind = "checkForAddedOrDeletedFunctions" ->
         [notifications |-> IF thrown = NoError
                              THEN logDeletedFunction(task.deleted) \o logAddedFunction(task.added)
                              ELSE <<>>,
          rejected |-> FALSE]
    [] task.kind = "handleFileChange" ->
         [notifications |-> IF thrown # NoError THEN <<Note("failed", "")>>
                            ELSE IF Len(task.matching) = 0 THEN <<Note("reloaded", "")>>
                            ELSE [i \in DOMAIN task.matching |-> Note("reloaded", task.matching[i])],
          rejected |-> thrown # NoError]

(***************************************************************************)
(* What each caller of build does once build has settled: the             *)
(* notifications it logs and whether its own promise rejects.              *)
(*   initialize's callback, lines 264-272; checkForAddedOrDeletedFunctions,*)
(*   lines 185-197; handleFileChange, lines 243-257.                       *)
(***************************************************************************)
afterBuild(task, thrown) ==
  CASE task.kind = "initialize" ->
         [notifications |-> <<>>, rejected |-> FALSE]
    [] task.kind = "checkForAddedOrDeletedFunctions" ->
         [notifications |-> IF thrown = NoError
                              THEN logDeletedFunction(task.deleted) \o logAddedFunction(task.added)
                              ELSE <<>>,
          rejected |-> FALSE]
    [] task.kind = "handleFileChange" ->
         [notifications |-> IF thrown # NoError THEN <<Note("failed", "")>>
                            ELSE IF Len(task.matching) = 0 THEN <<Note("reloaded", "")>>
                            ELSE [i \in DOMAIN task.matching |-> Note("reloaded", task.matching[i])],
          rejected |-> FALSE]

(***************************************************************************)
(* matchURLPath, lines 288-310, and                                        *)
(* matchURLPathAgainstOrphanedDeclarations, lines 312-342.                 *)
(***************************************************************************)
\* The paths of the requests to match.
URLPaths == {"/a", "/b"}

\* new RegExp(pattern).test(urlPath), for the patterns of the manifests below.
test(pattern, urlPath) ==
  CASE pattern = "^/a$" -> urlPath = "/a"
    [] pattern = "^/b$" -> urlPath = "/b"
    [] pattern = "^/.*$" -> TRUE
    [] OTHER -> FALSE

Route(name, pattern) == [function |-> name, pattern |-> pattern]

NoManifest == [routes |-> <<>>, post_cache_routes |-> <<>>, function_config |-> EmptyMap]

\* The manifests the bundler may lay out, before it leaves out the functions
\* it was not given: one with one route per function, one with several routes
\* per function, routes after the cache and an excluded pattern.
Layouts ==
  {[routes |-> <<Route("a", "^/a$"), Route("b", "^/.*$"), Route("i", "^/b$")>>,
    post_cache_routes |-> <<>>,
    function_config |-> EmptyMap],
   [routes |-> <<Route("b", "^/b$"), Route("a", "^/.*$"), Route("a", "^/a$")>>,
    post_cache_routes |-> <<Route("i", "^/.*$"), Route("b", "^/.*$")>>,
    function_config |->
      [name \in {"a", "b"} |->
         [excluded_patterns |-> IF name = "a" THEN <<"^/b$">> ELSE <<>>]]]}

\* What bundler.generateManifest({declarations, functions}) may resolve to:
\* it only includes functions for which there is both a function file and a
\* declaration (lines 313-314).
Manifests(declarations, fns) ==
  LET names == {declarations[i].function : i \in DOMAIN declarations}
                 \cap {fns[i].name : i \in DOMAIN fns}
      included(route) == route.function \in names
  IN {[routes |-> SelectSeq(layout.routes, included),
       post_cache_routes |-> SelectSeq(layout.post_cache_routes, included),
       function_config |->
         [name \in names \cap DOMAIN layout.function_config |-> layout.function_config[name]]] :
        layout \in Layouts}

\* manifest.function_config[name]?.excluded_patterns.some(...), lines 300-302.
isExcluded(manifest, name, urlPath) ==
  /\ name \in DOMAIN manifest.function_config
  /\ \E i \in DOMAIN manifest.function_config[name].excluded_patterns :
       test(manifest.function_config[name].excluded_patterns[i], urlPath)

\* Mutant of functionNames: the excluded patterns are not looked at.
functionNamesIgnoringExclusion(manifest, urlPath) ==
  LET routes == manifest.routes \o manifest.post_cache_routes
      tested == SelectSeq(routes, LAMBDA route : test(route.pattern, urlPath))
  IN [i \in DOMAIN tested |-> tested[i].function]

\* functionNames of matchURLPath, lines 294-306.
functionNames(manifest, urlPath) ==
  LET routes == manifest.routes \o manifest.post_cache_routes
      tested == SelectSeq(routes, LAMBDA route : test(route.pattern, urlPath))
      kept == SelectSeq(tested, LAMBDA route : ~isExcluded(manifest, route.function, urlPath))
  IN [i \in DOMAIN kept |-> kept[i].function]

\* Mutant of orphanedDeclarations: the function files are not looked at.
orphanedDeclarationsOfAll(manifest, urlPath, this) ==
  LET routes == manifest.routes \o manifest.post_cache_routes
      kept == SelectSeq(routes, LAMBDA route : test(route.pattern, urlPath))
  IN [i \in DOMAIN kept |-> kept[i].function]

\* functionNames of matchURLPathAgainstOrphanedDeclarations, lines 324-341.
orphanedDeclarations(manifest, urlPath, this) ==
  LET routes == manifest.routes \o manifest.post_cache_routes
      kept == SelectSeq(routes,
                LAMBDA route :
                  LET hasFunctionFile ==
                        \E i \in DOMAIN this.functions : this.functions[i].name = route.function
                  IN IF hasFunctionFile THEN FALSE ELSE test(route.pattern, urlPath))
  IN [i \in DOMAIN kept |-> kept[i].function]

\* Line 318: the functions made up from the config declarations.
functionsOfDeclarations(declarations) ==
  [i \in DOMAIN declarations |-> [name |-> declarations[i].function, path |-> ""]]

\* The step did not end a matchURLPath call.
NoMatch ==
  [done |-> FALSE, urlPath |-> "", given |-> <<>>, manifest |-> NoManifest,
   orphanManifest |-> NoManifest, declared |-> <<>>, live |-> <<>>,
   functionNames |-> <<>>, orphanedDeclarations |-> <<>>]

(***************************************************************************)
(* Suspended handler invocations.                                          *)
(***************************************************************************)
Slots == DOMAIN tasks

\* stamp and overtaken are bookkeeping: the rank of the invocation's runIsolate
\* call among those in flight, in the order of the calls, and the outcome of the
\* build that was started after it and has settled before it.
Blank == [kind |-> "none", pc |-> "idle", path |-> "", args |-> <<>>, added |-> <<>>,
         deleted |-> <<>>, matching |-> <<>>, promise |-> 0, stamp |-> 0,
         overtaken |-> "no", overtaker |-> <<>>]

Task(kind, pc) == [Blank EXCEPT !.kind = kind, !.pc = pc]

\* The model holds at most MaxTasks suspended invocations.
Room == Len(tasks) < MaxTasks

\* The invocation t has returned.
Remove(s, t) == [i \in 1..(Len(s) - 1) |-> IF i < t THEN s[i] ELSE s[i + 1]]

\* runIsolate calls that have not settled.
BuildsInFlight == {t \in Slots : tasks[t].pc = "isolate"}

\* The rank of a runIsolate call made now.
NextStamp == Cardinality(BuildsInFlight) + 1

\* The build of invocation t has settled as settlement: the builds in flight
\* that were started before it are overtaken, those started after it move up.
Settle(s, t, settlement) ==
  [u \in DOMAIN s |->
     IF s[u].pc # "isolate" \/ u = t THEN s[u]
     ELSE IF s[u].stamp < s[t].stamp
       THEN [s[u] EXCEPT !.overtaken = IF @ = "no" THEN settlement ELSE "often",
                         !.overtaker = IF s[u].overtaken = "no" THEN s[t].args ELSE <<>>]
       ELSE [s[u] EXCEPT !.stamp = @ - 1]]

Step(op, phase) ==
  [op |-> op, phase |-> phase, path |-> "", found |-> <<>>, builds |-> 0, args |-> <<>>,
   isolate |-> "none", thrown |-> NoError, rejected |-> FALSE, finished |-> FALSE]

(***************************************************************************)
(* The state the constructor leaves, lines 42-129: the initial scan is     *)
(* started and not awaited.                                                *)
(***************************************************************************)
Init ==
  /\ functions = <<>>
  /\ \E config \in Configs : declarationsFromConfig = getDeclarationsFromConfig(config)
  /\ declarationsFromSource = <<>>
  /\ functionPaths = EmptyMap
  /\ dependencyPaths = EmptyMap
  /\ buildError = NoError
  /\ initialScan = [state |-> "pending", value |-> <<>>]
  /\ initialization = 0
  /\ promises = 0
  /\ initReturned = {}
  /\ initBuilds = 0
  /\ tasks = <<>>
  /\ notifications = <<>>
  /\ last = Step("constructor", "call")
  /\ degraded = FALSE
  /\ events = 0
  /\ merged = <<>>
  /\ envConfig = SiteEnvConfig
  /\ env = getEnvironmentVariables(SiteEnvConfig)
  /\ matches = <<>>
  /\ matched = NoMatch

(***************************************************************************)
(* scan, lines 414-424, called by the constructor (line 126).  When its    *)
(* promise settles, the callbacks initialize() chained on it run.          *)
(***************************************************************************)
ScanResolves(found) ==
  /\ initialScan.state = "pending"
  /\ LET waiting == {t \in Slots : tasks[t].pc = "scan"}
     IN /\ functions' = found
        /\ notifications' = logAddedFunction(found)
        /\ initialScan' = [state |-> "resolved", value |-> found]
        /\ tasks' = [t \in Slots |->
                       IF t \in waiting
                         THEN [tasks[t] EXCEPT !.pc = "isolate", !.args = found,
                                               !.stamp = NextStamp]
                         ELSE tasks[t]]
        /\ initBuilds' = initBuilds + Cardinality(waiting)
        /\ last' = [Step("scan", "find") EXCEPT !.found = found, !.args = found,
                      !.builds = Cardinality(waiting), !.finished = TRUE]
  /\ UNCHANGED <<declarationsFromConfig, declarationsFromSource, functionPaths,
                 dependencyPaths, buildError, initialization, promises, initReturned,
                 degraded, events, merged>>
  /\ matched' = NoMatch
  /\ UNCHANGED <<envConfig, env, matches>>

ScanRejects ==
  /\ initialScan.state = "pending"
  /\ initialScan' = [state |-> "rejected", value |-> <<>>]
  /\ tasks' = SelectSeq(tasks, LAMBDA task : task.pc # "scan")
  /\ notifications' = <<>>
  /\ last' = [Step("scan", "find") EXCEPT !.rejected = TRUE, !.finished = TRUE]
  /\ UNCHANGED <<functions, declarationsFromConfig, declarationsFromSource, functionPaths,
                 dependencyPaths, buildError, initialization, promises, initReturned,
                 initBuilds, degraded, events, merged>>
  /\ matched' = NoMatch
  /\ UNCHANGED <<envConfig, env, matches>>

(***************************************************************************)
(* initialize, lines 260-275.  A promise chained on a resolved initialScan *)
(* runs its callback, up to the call of runIsolate, before any other event.*)
(***************************************************************************)
Initialize ==
  /\ promises < MaxPromises
  /\ LET fresh == promises + 1
         result == initializationOr(initialization, fresh)
         created == result = fresh
         chained == created /\ initialScan.state # "rejected"
         resolved == initialScan.state = "resolved"
     IN /\ chained => Room
        /\ initialization' = result
        /\ initReturned' = initReturned \cup {result}
        /\ promises' = IF created THEN fresh ELSE promises
        /\ tasks' = IF chained
                      THEN Append(tasks,
                              [Task("initialize", IF resolved THEN "isolate" ELSE "scan")
                                 EXCEPT !.args = initialScan.value, !.promise = fresh,
                                        !.stamp = IF resolved THEN NextStamp ELSE 0])
                      ELSE tasks
        /\ initBuilds' = initBuilds + (IF chained /\ resolved THEN 1 ELSE 0)
        /\ last' = [Step("initialize", "call") EXCEPT
                      !.builds = IF chained /\ resolved THEN 1 ELSE 0,
                      !.args = initialScan.value]
  /\ notifications' = <<>>
  /\ UNCHANGED <<functions, declarationsFromConfig, declarationsFromSource, functionPaths,
                 dependencyPaths, buildError, initialScan, degraded, events, merged>>
  /\ matched' = NoMatch
  /\ UNCHANGED <<envConfig, env, matches>>

(***************************************************************************)
(* The watchers' callbacks, lines 429-437 and 446-451.                     *)
(***************************************************************************)
\* onAdd, onUnlink: checkForAddedOrDeletedFunctions up to its await of bundler.find.
OnAddOrUnlink ==
  /\ events < MaxEvents
  /\ Room
  /\ tasks' = Append(tasks, Task("checkForAddedOrDeletedFunctions", "find"))
  /\ events' = events + 1
  /\ notifications' = <<>>
  /\ last' = Step("checkForAddedOrDeletedFunctions", "call")
  /\ UNCHANGED <<functions, declarationsFromConfig, declarationsFromSource, functionPaths,
                 dependencyPaths, buildError, initialScan, initialization, promises,
                 initReturned, initBuilds, degraded, merged>>
  /\ matched' = NoMatch
  /\ UNCHANGED <<envConfig, env, matches>>

\* The config watcher's onChange up to its await of getUpdatedConfig.
OnConfigChange ==
  /\ events < MaxEvents
  /\ Room
  /\ tasks' = Append(tasks, Task("configChange", "getUpdatedConfig"))
  /\ events' = events + 1
  /\ notifications' = <<>>
  /\ last' = Step("configChange", "call")
  /\ UNCHANGED <<functions, declarationsFromConfig, declarationsFromSource, functionPaths,
                 dependencyPaths, buildError, initialScan, initialization, promises,
                 initReturned, initBuilds, degraded, merged>>
  /\ matched' = NoMatch
  /\ UNCHANGED <<envConfig, env, matches>>

\* getUpdatedConfig resolved: lines 433-435, into checkForAddedOrDeletedFunctions.
ConfigResolves(t, newConfig) ==
  /\ tasks[t].pc = "getUpdatedConfig"
  /\ declarationsFromConfig' = getDeclarationsFromConfig(newConfig)
  /\ tasks' = [tasks EXCEPT ![t] = Task("checkForAddedOrDeletedFunctions", "find")]
  /\ notifications' = <<>>
  /\ last' = Step("configChange", "getUpdatedConfig")
  /\ UNCHANGED <<functions, declarationsFromSource, functionPaths, dependencyPaths,
                 buildError, initialScan, initialization, promises, initReturned,
                 initBuilds, degraded, events, merged>>
  /\ matched' = NoMatch
  /\ UNCHANGED <<envConfig, env, matches>>

(***************************************************************************)
(* checkForAddedOrDeletedFunctions once bundler.find has settled: lines    *)
(* 157-186, up to build's call of runIsolate.                              *)
(***************************************************************************)
FindResolves(t, functionsFound) ==
  /\ tasks[t].pc = "find"
  /\ LET added == newFunctions(functionsFound, Registry)
         deleted == deletedFunctions(functionsFound, Registry)
         done == nothingToDo(added, deleted)
     IN /\ functions' = functionsFound
        /\ tasks' = IF done THEN Remove(tasks, t)
                    ELSE [tasks EXCEPT ![t] =
                            [@ EXCEPT !.pc = "isolate", !.args = functionsFound,
                                      !.added = added, !.deleted = deleted,
                                      !.stamp = NextStamp]]
        /\ last' = [Step("checkForAddedOrDeletedFunctions", "find") EXCEPT
                      !.found = functionsFound,
                      !.builds = IF done THEN 0 ELSE 1,
                      !.args = IF done THEN <<>> ELSE functionsFound,
                      !.finished = done]
  /\ notifications' = <<>>
  /\ UNCHANGED <<declarationsFromConfig, declarationsFromSource, functionPaths,
                 dependencyPaths, buildError, initialScan, initialization, promises,
                 initReturned, initBuilds, degraded, events, merged>>
  /\ matched' = NoMatch
  /\ UNCHANGED <<envConfig, env, matches>>

\* Mutant of FindRejects: the failed discovery empties the function list.
FindRejectsClearing(t) ==
  /\ tasks[t].pc = "find"
  /\ tasks' = Remove(tasks, t)
  /\ functions' = <<>>
  /\ notifications' = <<>>
  /\ last' = [Step("checkForAddedOrDeletedFunctions", "find") EXCEPT
                !.rejected = TRUE, !.finished = TRUE]
  /\ matched' = NoMatch
  /\ UNCHANGED <<declarationsFromConfig, declarationsFromSource, functionPaths,
                 dependencyPaths, buildError, initialScan, initialization, promises,
                 initReturned, initBuilds, degraded, events, merged, envConfig, env,
                 matches>>

\* bundler.find rejected: line 156 rethrows to the watcher.
FindRejects(t) ==
  /\ tasks[t].pc = "find"
  /\ tasks' = Remove(tasks, t)
  /\ notifications' = <<>>
  /\ last' = [Step("checkForAddedOrDeletedFunctions", "find") EXCEPT
                !.rejected = TRUE, !.finished = TRUE]
  /\ UNCHANGED <<functions, declarationsFromConfig, declarationsFromSource, functionPaths,
                 dependencyPaths, buildError, initialScan, initialization, promises,
                 initReturned, initBuilds, degraded, events, merged>>
  /\ matched' = NoMatch
  /\ UNCHANGED <<envConfig, env, matches>>

(***************************************************************************)
(* handleFileChange, lines 228-244, up to build's call of runIsolate.      *)
(***************************************************************************)
OnChange(path) ==
  /\ events < MaxEvents
  /\ LET matching == matchingFunctions(path, Registry)
         skip == irrelevantChange(matching, Registry)
     IN /\ ~skip => Room
        /\ tasks' = IF skip THEN tasks
                    ELSE Append(tasks,
                            [Task("handleFileChange", "isolate") EXCEPT
                               !.path = path, !.args = functions, !.matching = matching,
                               !.stamp = NextStamp])
        /\ notifications' = IF skip THEN <<>> ELSE <<Note("reloading", "")>>
        /\ last' = [Step("handleFileChange", "call") EXCEPT
                      !.path = path,
                      !.builds = IF skip THEN 0 ELSE 1,
                      !.args = IF skip THEN <<>> ELSE functions,
                      !.finished = skip]
  /\ events' = events + 1
  /\ UNCHANGED <<functions, declarationsFromConfig, declarationsFromSource, functionPaths,
                 dependencyPaths, buildError, initialScan, initialization, promises,
                 initReturned, initBuilds, degraded, merged>>
  /\ matched' = NoMatch
  /\ UNCHANGED <<envConfig, env, matches>>

(***************************************************************************)
(* runIsolate settled: the rest of build (lines 140-152) and of its caller.*)
(***************************************************************************)
IsolateSettles(t, outcome) ==
  /\ tasks[t].pc = "isolate"
  /\ LET built == build(outcome, tasks[t].args, Registry)
         after == afterBuild(tasks[t], built.thrown)
     IN /\ buildError' = built.this.buildError
        /\ declarationsFromSource' = built.this.declarationsFromSource
        /\ functionPaths' = built.this.functionPaths
        /\ dependencyPaths' = built.this.dependencyPaths
        /\ functions' = built.this.functions
        /\ declarationsFromConfig' = built.this.declarationsFromConfig
        /\ degraded' = IF built.thrown = NoError
                         THEN "graph" \notin DOMAIN outcome.value ELSE degraded
        /\ notifications' = graphWarning(outcome, built.thrown) \o after.notifications
        /\ last' = [Step(tasks[t].kind, "build") EXCEPT
                      !.isolate = Settlement(outcome),
                      !.thrown = built.thrown, !.rejected = after.rejected,
                      !.finished = TRUE]
  /\ tasks' = Remove(Settle(tasks, t, Settlement(outcome)), t)
  /\ UNCHANGED <<initialScan, initialization, promises, initReturned, initBuilds,
                 events, merged>>
  /\ matched' = NoMatch
  /\ UNCHANGED <<envConfig, env, matches>>

Next ==
  \/ \E found \in FinderResults : ScanResolves(found)
  \/ ScanRejects
  \/ Initialize
  \/ OnAddOrUnlink
  \/ OnConfigChange
  \/ \E t \in Slots, newConfig \in Configs : ConfigResolves(t, newConfig)
  \/ \E t \in Slots, found \in FinderResults : FindResolves(t, found)
  \/ \E t \in Slots : FindRejects(t)
  \/ \E path \in ChangePaths : OnChange(path)
  \/ \E t \in Slots : \E outcome \in IsolateOutcomes(tasks[t].args) : IsolateSettles(t, outcome)

Spec == Init /\ [][Next]_vars

(***************************************************************************)
(* mergeDeclarations on its own: the registry holds any config and source  *)
(* declarations of at most MaxDecls entries each, and the method is called.*)
(* Config declarations have a path or a pattern (the typedefs of lines     *)
(* 13-27); several may name the same function.                             *)
(***************************************************************************)
BoundedSeq(S, n) == UNION {[1..k -> S] : k \in 0..n}

MergeConfigDecls ==
  {DeclA, [function |-> "a", path |-> "/a2", cache |-> "off"], DeclB, DeclI}

MergeSourceDecls ==
  {[function |-> "a", path |-> "/a-src"], [function |-> "a", cache |-> "manual"],
   [function |-> "b", cache |-> "manual"], [function |-> "c"],
   [function |-> "c", path |-> "/c"]}

InitMerge ==
  /\ functions = <<>>
  /\ declarationsFromConfig \in BoundedSeq(MergeConfigDecls, MaxDecls)
  /\ declarationsFromSource \in BoundedSeq(MergeSourceDecls, MaxDecls)
  /\ functionPaths = EmptyMap
  /\ dependencyPaths = EmptyMap
  /\ buildError = NoError
  /\ initialScan = [state |-> "pending", value |-> <<>>]
  /\ initialization = 0
  /\ promises = 0
  /\ initReturned = {}
  /\ initBuilds = 0
  /\ tasks = <<>>
  /\ notifications = <<>>
  /\ last = Step("constructor", "call")
  /\ degraded = FALSE
  /\ events = 0
  /\ merged = <<>>
  /\ envConfig = SiteEnvConfig
  /\ env = getEnvironmentVariables(SiteEnvConfig)
  /\ matches = <<>>
  /\ matched = NoMatch

\* mergeDeclarations(), lines 345-361: it assigns no field of the registry.
MergeCall ==
  /\ merged' = mergeDeclarations(declarationsFromConfig, declarationsFromSource)
  /\ last' = [Step("mergeDeclarations", "call") EXCEPT !.finished = TRUE]
  /\ notifications' = <<>>
  /\ UNCHANGED <<functions, declarationsFromConfig, declarationsFromSource, functionPaths,
                 dependencyPaths, buildError, initialScan, initialization, promises,
                 initReturned, initBuilds, tasks, degraded, events>>
  /\ matched' = NoMatch
  /\ UNCHANGED <<envConfig, env, matches>>

NextMerge == MergeCall

SpecMerge == InitMerge /\ [][NextMerge]_vars

(***************************************************************************)
(* The same registry with one more answer of bundler.find, a function     *)
(* joining the ones that were there, and with builds that never overlap.   *)
(***************************************************************************)
WideFinderResults == FinderResults \cup {<<FA, FB>>}

\* The events as they come when the builds do not overlap: no step leaves two
\* runIsolate calls in flight.
Serial == Cardinality(BuildsInFlight) <= 1

NextSerial ==
  \/ (\E found \in WideFinderResults : ScanResolves(found)) /\ Serial'
  \/ ScanRejects /\ Serial'
  \/ Initialize /\ Serial'
  \/ OnAddOrUnlink /\ Serial'
  \/ OnConfigChange /\ Serial'
  \/ (\E t \in Slots, newConfig \in Configs : ConfigResolves(t, newConfig)) /\ Serial'
  \/ (\E t \in Slots, found \in WideFinderResults : FindResolves(t, found)) /\ Serial'
  \/ (\E t \in Slots : FindRejects(t)) /\ Serial'
  \/ (\E path \in ChangePaths : OnChange(path)) /\ Serial'
  \/ (\E t \in Slots : \E outcome \in IsolateOutcomes(tasks[t].args) : IsolateSettles(t, outcome))
       /\ Serial'

SpecSerial == Init /\ [][NextSerial]_vars

(***************************************************************************)
(* getEnvironmentVariables on its own: the constructor is given any of the *)
(* environments of EnvConfigs (line 101).                                  *)
(***************************************************************************)
InitEnv ==
  /\ functions = <<>>
  /\ declarationsFromConfig = getDeclarationsFromConfig(EmptyObject)
  /\ declarationsFromSource = <<>>
  /\ functionPaths = EmptyMap
  /\ dependencyPaths = EmptyMap
  /\ buildError = NoError
  /\ initialScan = [state |-> "pending", value |-> <<>>]
  /\ initialization = 0
  /\ promises = 0
  /\ initReturned = {}
  /\ initBuilds = 0
  /\ tasks = <<>>
  /\ notifications = <<>>
  /\ last = Step("new", "call")
  /\ degraded = FALSE
  /\ events = 0
  /\ merged = <<>>
  /\ envConfig \in EnvConfigs
  /\ env = EmptyObject
  /\ matches = <<>>
  /\ matched = NoMatch

\* Line 101 of the constructor.
ConstructEnv ==
  /\ last.op = "new"
  /\ env' = getEnvironmentVariables(envConfig)
  /\ last' = [Step("constructor", "call") EXCEPT !.finished = TRUE]
  /\ UNCHANGED <<functions, declarationsFromConfig, declarationsFromSource, functionPaths,
                 dependencyPaths, buildError, initialScan, initialization, promises,
                 initReturned, initBuilds, tasks, notifications, degraded, events, merged,
                 envConfig, matches, matched>>

NextEnv == ConstructEnv

SpecEnv == InitEnv /\ [][NextEnv]_vars

(***************************************************************************)
(* matchURLPath, lines 288-310, called on a registry whose initializer has *)
(* built the functions of the initial scan, while the directory watcher    *)
(* reports added and deleted files; the rebuilds these events start are    *)
(* still running when the calls return.                                    *)
(***************************************************************************)
\* matchURLPath(urlPath) up to its await of bundler.generateManifest.
MatchCall(urlPath) ==
  /\ Len(matches) < MaxMatches
  /\ LET declarations == mergeDeclarations(declarationsFromConfig, declarationsFromSource)
     IN /\ merged' = declarations
        /\ matches' = Append(matches,
                         [pc |-> "generateManifest", urlPath |-> urlPath,
                          declarations |-> declarations, functions |-> functions,
                          given |-> functions, manifest |-> NoManifest,
                          functionNames |-> <<>>])
  /\ notifications' = <<>>
  /\ last' = [Step("matchURLPath", "call") EXCEPT !.path = urlPath]
  /\ UNCHANGED <<functions, declarationsFromConfig, declarationsFromSource, functionPaths,
                 dependencyPaths, buildError, initialScan, initialization, promises,
                 initReturned, initBuilds, tasks, degraded, events, envConfig, env>>
  /\ matched' = NoMatch

\* The manifest is there: lines 294-307, and
\* matchURLPathAgainstOrphanedDeclarations up to its await, lines 318-322.
ManifestResolves(m, manifest) ==
  /\ matches[m].pc = "generateManifest"
  /\ matches' = [matches EXCEPT ![m] =
                   [@ EXCEPT !.pc = "orphans",
                             !.manifest = manifest,
                             !.functionNames = functionNames(manifest, matches[m].urlPath),
                             !.declarations = declarationsFromConfig,
                             !.functions = functionsOfDeclarations(declarationsFromConfig)]]
  /\ notifications' = <<>>
  /\ last' = [Step("matchURLPath", "generateManifest") EXCEPT !.path = matches[m].urlPath]
  /\ UNCHANGED <<functions, declarationsFromConfig, declarationsFromSource, functionPaths,
                 dependencyPaths, buildError, initialScan, initialization, promises,
                 initReturned, initBuilds, tasks, degraded, events, merged, envConfig, env>>
  /\ matched' = NoMatch

\* bundler.generateManifest rejected: matchURLPath rejects.
ManifestRejects(m) ==
  /\ matches' = Remove(matches, m)
  /\ notifications' = <<>>
  /\ last' = [Step("matchURLPath", matches[m].pc) EXCEPT
                !.path = matches[m].urlPath, !.rejected = TRUE, !.finished = TRUE]
  /\ UNCHANGED <<functions, declarationsFromConfig, declarationsFromSource, functionPaths,
                 dependencyPaths, buildError, initialScan, initialization, promises,
                 initReturned, initBuilds, tasks, degraded, events, merged, envConfig, env>>
  /\ matched' = NoMatch

\* The manifest of the config declarations is there: lines 324-341 and 309.
OrphanManifestResolves(m, manifest) ==
  /\ matches[m].pc = "orphans"
  /\ matched' = [done |-> TRUE, urlPath |-> matches[m].urlPath, given |-> matches[m].given,
                 manifest |-> matches[m].manifest, orphanManifest |-> manifest,
                 declared |-> matches[m].declarations, live |-> functions,
                 functionNames |-> matches[m].functionNames,
                 orphanedDeclarations |->
                   orphanedDeclarations(manifest, matches[m].urlPath, Registry)]
  /\ matches' = Remove(matches, m)
  /\ notifications' = <<>>
  /\ last' = [Step("matchURLPath", "orphans") EXCEPT
                !.path = matches[m].urlPath, !.finished = TRUE]
  /\ UNCHANGED <<functions, declarationsFromConfig, declarationsFromSource, functionPaths,
                 dependencyPaths, buildError, initialScan, initialization, promises,
                 initReturned, initBuilds, tasks, degraded, events, merged, envConfig, env>>

\* The registry once initialize() has completed: the scan found `found`, the
\* initializer's build of them settled as `outcome`.
Initialized(found, config, outcome) ==
  LET built == build(outcome, found,
                     [functions |-> found,
                      declarationsFromConfig |-> getDeclarationsFromConfig(config),
                      declarationsFromSource |-> <<>>,
                      functionPaths |-> EmptyMap,
                      dependencyPaths |-> EmptyMap,
                      buildError |-> NoError])
  IN /\ functions = built.this.functions
     /\ declarationsFromConfig = built.this.declarationsFromConfig
     /\ declarationsFromSource = built.this.declarationsFromSource
     /\ functionPaths = built.this.functionPaths
     /\ dependencyPaths = built.this.dependencyPaths
     /\ buildError = built.this.buildError
     /\ initialScan = [state |-> "resolved", value |-> found]
     /\ notifications = graphWarning(outcome, built.thrown)
     /\ last = [Step("initialize", "build") EXCEPT
                  !.isolate = Settlement(outcome), !.thrown = built.thrown, !.finished = TRUE]
     /\ degraded = (built.thrown = NoError /\ "graph" \notin DOMAIN outcome.value)

InitMatch ==
  /\ \E found \in FinderResults, config \in Configs :
       \E outcome \in IsolateOutcomes(found) :
         /\ outcome.settled = "resolved"
         /\ "graph" \in DOMAIN outcome.value \/ ~outcome.value.success
         /\ Initialized(found, config, outcome)
  /\ initialization = 1
  /\ promises = 1
  /\ initReturned = {1}
  /\ initBuilds = 1
  /\ tasks = <<>>
  /\ events = 0
  /\ merged = <<>>
  /\ envConfig = SiteEnvConfig
  /\ env = getEnvironmentVariables(SiteEnvConfig)
  /\ matches = <<>>
  /\ matched = NoMatch

NextMatch ==
  \/ \E urlPath \in URLPaths : MatchCall(urlPath)
  \/ \E m \in DOMAIN matches :
       \E manifest \in Manifests(matches[m].declarations, matches[m].functions) :
         ManifestResolves(m, manifest)
  \/ \E m \in DOMAIN matches : ManifestRejects(m)
  \/ \E m \in DOMAIN matches :
       \E manifest \in Manifests(matches[m].declarations, matches[m].functions) :
         OrphanManifestResolves(m, manifest)
  \/ OnAddOrUnlink
  \/ \E t \in Slots, found \in FinderResults : FindResolves(t, found)
  \/ \E t \in Slots : FindRejects(t)

SpecMatch == InitMatch /\ [][NextMatch]_vars

(***************************************************************************)
(* What the properties below read off a step.                              *)
(***************************************************************************)
\* The step is a call handleFileChange(path), up to its return or first await.
ChangeCalled == last'.op = "handleFileChange" /\ last'.phase = "call"

\* The step is the end of a build whose runIsolate call threw or reported a failure.
BuildFailed == last'.phase = "build" /\ last'.isolate \in {"rejected", "failed"}

BuildSucceeded == last'.phase = "build" /\ last'.isolate = "succeeded"

\* The step invoked runIsolate exactly once, with fns.
InvokedBuildWith(fns) ==
  /\ Len(tasks') = Len(tasks) + 1
  /\ \A t \in DOMAIN tasks : tasks'[t] = tasks[t]
  /\ tasks'[Len(tasks')].pc = "isolate"
  /\ tasks'[Len(tasks')].args = fns

\* The step ended an invocation that awaited bundler.find, and invoked no build.
ReturnedWithoutBuild == \E t \in DOMAIN tasks : tasks[t].pc = "find" /\ tasks' = Remove(tasks, t)

Unrelated(path) == path \notin DOMAIN functionPaths /\ path \notin DOMAIN dependencyPaths

(***************************************************************************)
(* C1: all rebuild-triggering paths are serialized: at most one runIsolate *)
(* call is in flight at any time.  The code has no such serialization.     *)
(***************************************************************************)
C1_AtMostOneBuildInFlight == Cardinality(BuildsInFlight) <= 1

(***************************************************************************)
(* C2: a build that fails (runIsolate throws or reports success = false)   *)
(* sets buildError to the error, rethrows it, and writes neither           *)
(* declarationsFromSource nor functionPaths nor dependencyPaths; a build   *)
(* that succeeds leaves buildError none.                                   *)
(***************************************************************************)
C2_StaleOnFailure ==
  [][/\ BuildFailed =>
          /\ buildError' # NoError
          /\ buildError' = (IF last'.isolate = "rejected" THEN IsolateThrown ELSE BuildErrorValue)
          /\ last'.thrown = buildError'
          /\ UNCHANGED <<declarationsFromSource, functionPaths, dependencyPaths>>
     /\ BuildSucceeded => buildError' = NoError /\ last'.thrown = NoError]_vars

\* A build has just failed and the declarations and indexes of an earlier
\* successful build are still there.
C2_Witness ==
  /\ last.phase = "build" /\ last.isolate = "failed"
  /\ buildError = BuildErrorValue
  /\ declarationsFromSource # <<>>
  /\ functionPaths # EmptyMap
  /\ dependencyPaths # EmptyMap

(***************************************************************************)
(* C3: handleFileChange(path) called while buildError is set invokes build *)
(* exactly once, with the current functions list, whatever the path.       *)
(***************************************************************************)
C3_ForcedRetry ==
  [][ChangeCalled /\ buildError # NoError => InvokedBuildWith(functions) /\ last'.builds = 1]_vars

\* A change of a file in neither index has just invoked a build because of
\* the build error.
C3_Witness ==
  /\ last.op = "handleFileChange" /\ last.phase = "call" /\ last.builds = 1
  /\ Unrelated(last.path)
  /\ buildError # NoError
  /\ tasks[Len(tasks)].kind = "handleFileChange" /\ tasks[Len(tasks)].matching = <<>>

(***************************************************************************)
(* C4: handleFileChange(path) with path in neither index and no build      *)
(* error invokes no build, logs nothing and changes no field.              *)
(***************************************************************************)
C4_NoOpChange ==
  [][ChangeCalled /\ Unrelated(last'.path) /\ buildError = NoError =>
       /\ tasks' = tasks
       /\ last'.builds = 0 /\ last'.finished
       /\ notifications' = <<>>
       /\ UNCHANGED <<functions, declarationsFromSource, declarationsFromConfig,
                      functionPaths, dependencyPaths, buildError>>]_vars

\* An unrelated change has just been ignored while the indexes were filled.
C4_Witness ==
  /\ last.op = "handleFileChange" /\ last.phase = "call" /\ last.builds = 0 /\ last.finished
  /\ Unrelated(last.path)
  /\ buildError = NoError
  /\ functionPaths # EmptyMap

(***************************************************************************)
(* C5, as claimed: after a successful build without a graph, every         *)
(* handleFileChange(path) triggers a rebuild, until a build returns a      *)
(* graph.                                                                  *)
(***************************************************************************)
C5_RebuildOnAnyChange ==
  [][degraded /\ ChangeCalled => InvokedBuildWith(functions)]_vars

(***************************************************************************)
(* C5, amended: a successful build without a graph leaves functionPaths    *)
(* and dependencyPaths as they were, and until a build returns a graph     *)
(* handleFileChange(path) rebuilds exactly when path is a key of one of    *)
(* these indexes or buildError is set.                                     *)
(***************************************************************************)
C5_StaleIndexesDecide ==
  [][/\ BuildSucceeded /\ degraded' => UNCHANGED <<functionPaths, dependencyPaths>>
     /\ degraded /\ ChangeCalled =>
          IF ~Unrelated(last'.path) \/ buildError # NoError
            THEN InvokedBuildWith(functions)
            ELSE tasks' = tasks /\ last'.builds = 0]_vars

\* After a build without a graph, and with no build error, a change has just
\* been ignored.
C5_Witness ==
  /\ degraded
  /\ last.op = "handleFileChange" /\ last.phase = "call" /\ last.builds = 0
  /\ buildError = NoError
  /\ functions # <<>>

(***************************************************************************)
(* C6: checkForAddedOrDeletedFunctions invokes build once, with the fresh  *)
(* scan result, if a found function with a config declaration is not in    *)
(* the previous list (by name and path) or a previous function is not in   *)
(* the scan result, and does not invoke it otherwise.                      *)
(***************************************************************************)
C6_AddDeleteDetection ==
  [][last'.op = "checkForAddedOrDeletedFunctions" /\ last'.phase = "find" /\ ~last'.rejected =>
       LET found == last'.found
           declared == {declarationsFromConfig[d].function : d \in DOMAIN declarationsFromConfig}
           added == {i \in DOMAIN found : found[i] \notin Range(functions)
                                            /\ found[i].name \in declared}
           deleted == {i \in DOMAIN functions : functions[i] \notin Range(found)}
       IN IF added # {} \/ deleted # {}
            THEN /\ \E t \in DOMAIN tasks :
                      /\ tasks[t].pc = "find"
                      /\ tasks'[t].pc = "isolate"
                      /\ tasks'[t].args = found
                      /\ Len(tasks'[t].added) = Cardinality(added)
                      /\ Range(tasks'[t].added) = {found[i] : i \in added}
                      /\ Len(tasks'[t].deleted) = Cardinality(deleted)
                      /\ Range(tasks'[t].deleted) = {functions[i] : i \in deleted}
                      /\ \A u \in DOMAIN tasks : u # t => tasks'[u] = tasks[u]
                 /\ Len(tasks') = Len(tasks)
                 /\ last'.builds = 1
            ELSE /\ ReturnedWithoutBuild
                 /\ last'.builds = 0]_vars

\* A check has just invoked a build for a function that was added and one
\* that was deleted.
C6_Witness ==
  /\ last.op = "checkForAddedOrDeletedFunctions" /\ last.phase = "find" /\ last.builds = 1
  /\ \E t \in DOMAIN tasks :
       /\ tasks[t].pc = "isolate" /\ tasks[t].args = functions
       /\ tasks[t].added # <<>> /\ tasks[t].deleted # <<>>

(***************************************************************************)
(* C7: however often initialize() is called, before or after the initial   *)
(* scan has completed, every call returns the same promise, and the        *)
(* initializer invokes build at most once, after the scan and with the     *)
(* functions it found.                                                     *)
(***************************************************************************)
C7_InitializeMemoized ==
  /\ Cardinality(initReturned) <= 1
  /\ promises <= 1
  /\ initBuilds <= 1
  /\ initBuilds = 1 => initialScan.state = "resolved"
  /\ Cardinality({t \in DOMAIN tasks : tasks[t].kind = "initialize"}) <= 1
  /\ \A t \in DOMAIN tasks :
       tasks[t].kind = "initialize" /\ tasks[t].pc = "isolate" => tasks[t].args = initialScan.value

\* initialize() has just been called again after the initializer's build ended.
C7_Witness ==
  /\ last.op = "initialize" /\ last.builds = 0
  /\ initBuilds = 1
  /\ \A t \in DOMAIN tasks : tasks[t].kind # "initialize"
  /\ initReturned = {1}

(***************************************************************************)
(* C8: when build fails inside checkForAddedOrDeletedFunctions,            *)
(* handleFileChange or initialize, the operation completes without         *)
(* rejecting, buildError is recorded, and the invocation is over, so that  *)
(* the registry takes further events.                                      *)
(***************************************************************************)
C8_FailuresSwallowed ==
  [][BuildFailed =>
       /\ last'.op \in {"checkForAddedOrDeletedFunctions", "handleFileChange", "initialize"}
       /\ ~last'.rejected
       /\ last'.finished
       /\ buildError' # NoError
       /\ Len(tasks') = Len(tasks) - 1]_vars

\* An event has been taken after a build failed.
C8_Witness ==
  /\ buildError # NoError
  /\ last.op = "checkForAddedOrDeletedFunctions" /\ last.phase = "call"
  /\ tasks = <<Task("checkForAddedOrDeletedFunctions", "find")>>

(***************************************************************************)
(* What C9 and C10 say of a call of mergeDeclarations.                     *)
(***************************************************************************)
MergeCalled == last'.op = "mergeDeclarations"

Named(decls, name) == SelectSeq(decls, LAMBDA d : d.function = name)

ConfigNames == {declarationsFromConfig[i].function : i \in DOMAIN declarationsFromConfig}

\* base with the fields of the declarations of seq laid over it, in order.
Overlay(base, seq) ==
  [k \in (DOMAIN base) \cup UNION {DOMAIN seq[j] : j \in DOMAIN seq} |->
     IF \E j \in DOMAIN seq : k \in DOMAIN seq[j]
       THEN seq[CHOOSE j \in DOMAIN seq :
                  /\ k \in DOMAIN seq[j]
                  /\ \A h \in DOMAIN seq : k \in DOMAIN seq[h] => h <= j][k]
       ELSE base[k]]

\* The i-th declaration is the first of its function name in decls.
FirstOfName(decls, i) == \A j \in DOMAIN decls : decls[j].function = decls[i].function => i <= j

\* C9 as claimed: each config declaration with a same-named source
\* declaration is the shallow merge of the two.
ClaimedConfigPart ==
  [i \in DOMAIN declarationsFromConfig |->
     LET same == Named(declarationsFromSource, declarationsFromConfig[i].function)
     IN IF same = <<>> THEN declarationsFromConfig[i]
        ELSE Spread(declarationsFromConfig[i], same[Len(same)])]

\* C9 as claimed: then the source declarations with no same-named config declaration.
ClaimedSourcePart ==
  SelectSeq(declarationsFromSource, LAMBDA d : d.function \notin ConfigNames)

(***************************************************************************)
(* C9, as claimed: mergeDeclarations returns the config declarations in    *)
(* order, each one that has a same-named source declaration replaced by    *)
(* the shallow merge of the two, followed by the source declarations that  *)
(* have no same-named config declaration, without the declarations that    *)
(* have neither path nor pattern; it modifies neither input.  Stated for   *)
(* source declarations of distinct functions, as a build of functions of   *)
(* distinct names leaves them: already there the code does otherwise, when *)
(* the config declares a function twice.                                   *)
(***************************************************************************)
C9_EveryNamesakeMerged ==
  [][MergeCalled /\ (\A i \in DOMAIN declarationsFromSource : FirstOfName(declarationsFromSource, i)) =>
       /\ merged' = SelectSeq(ClaimedConfigPart \o ClaimedSourcePart, routable)
       /\ UNCHANGED <<declarationsFromConfig, declarationsFromSource>>]_vars

\* The config part of the result: only the first config declaration of a
\* name takes the source declarations of that name, all of them, in order.
MergedConfigPart ==
  [i \in DOMAIN declarationsFromConfig |->
     IF FirstOfName(declarationsFromConfig, i)
       THEN Overlay(declarationsFromConfig[i],
                    Named(declarationsFromSource, declarationsFromConfig[i].function))
       ELSE declarationsFromConfig[i]]

\* The appended part: one entry per name that only the source declares, at
\* the place of its first source declaration.
MergedSourcePart ==
  LET firsts == SelectSeq([i \in DOMAIN declarationsFromSource |-> i],
                          LAMBDA i : /\ FirstOfName(declarationsFromSource, i)
                                     /\ declarationsFromSource[i].function \notin ConfigNames)
  IN [n \in DOMAIN firsts |->
        Overlay(declarationsFromSource[firsts[n]],
                Named(declarationsFromSource, declarationsFromSource[firsts[n]].function))]

(***************************************************************************)
(* C9, amended: mergeDeclarations returns the config declarations in       *)
(* order, where only the first config declaration of each function name is *)
(* replaced by the shallow merge of itself with the source declarations of *)
(* that name (in source order, later fields winning) and further config    *)
(* declarations of the name are kept as they are, followed by one          *)
(* declaration per function name that only the source declares (the merge  *)
(* of its source declarations), without the declarations that have neither *)
(* path nor pattern; it modifies neither input.                            *)
(***************************************************************************)
C9_FirstNamesakeMerged ==
  [][MergeCalled =>
       /\ merged' = SelectSeq(MergedConfigPart \o MergedSourcePart, routable)
       /\ UNCHANGED <<declarationsFromConfig, declarationsFromSource>>]_vars

\* A merge where two config declarations name the function of a source
\* declaration, and a source declaration without path or pattern was dropped.
C9_Witness ==
  /\ last.op = "mergeDeclarations"
  /\ declarationsFromConfig = <<[function |-> "a", path |-> "/a2", cache |-> "off"], DeclA>>
  /\ declarationsFromSource = <<[function |-> "a", path |-> "/a-src"], [function |-> "c"]>>
  /\ merged = <<[function |-> "a", path |-> "/a-src", cache |-> "off"], DeclA>>

(***************************************************************************)
(* C10: with no source declarations, mergeDeclarations returns the config  *)
(* declarations, all of them, unchanged and in order.                      *)
(***************************************************************************)
C10_EmptySourceIdentity ==
  [][MergeCalled /\ declarationsFromSource = <<>> => merged' = declarationsFromConfig]_vars

\* A merge of two config declarations, one with a pattern only, with no
\* source declarations.
C10_Witness ==
  /\ last.op = "mergeDeclarations"
  /\ declarationsFromSource = <<>>
  /\ declarationsFromConfig = <<DeclB, DeclA>>
  /\ merged = <<DeclB, DeclA>>

(***************************************************************************)
(* What C11, C12 and C18 say of a matchURLPath call that has returned.     *)
(***************************************************************************)
\* The elements of seq at the positions keep, in their order.
RECURSIVE At(_, _)
At(seq, keep) ==
  IF keep = {} THEN <<>>
  ELSE LET first == CHOOSE i \in keep : \A j \in keep : i <= j
       IN <<seq[first]>> \o At(seq, keep \ {first})

NamesOf(fns) == {fns[i].name : i \in DOMAIN fns}

AllRoutes(manifest) == manifest.routes \o manifest.post_cache_routes

Owners(manifest) == [i \in DOMAIN AllRoutes(manifest) |-> AllRoutes(manifest)[i].function]

(***************************************************************************)
(* C11: orphanedDeclarations is exactly the owning function names of the   *)
(* routes of the manifest generated from declarationsFromConfig alone      *)
(* whose pattern matches urlPath and whose function is none of the live    *)
(* functions; a declared function that is not among the functions (neither *)
(* when the call began nor when it looked for orphans) and has a matching  *)
(* route is in orphanedDeclarations and not in functionNames.              *)
(***************************************************************************)
C11_OrphanDetection ==
  matched.done =>
    LET all == AllRoutes(matched.orphanManifest)
        orphans == {i \in DOMAIN all : /\ test(all[i].pattern, matched.urlPath)
                                       /\ all[i].function \notin NamesOf(matched.live)}
    IN /\ matched.declared = declarationsFromConfig
       /\ matched.orphanManifest \in
            Manifests(declarationsFromConfig, functionsOfDeclarations(declarationsFromConfig))
       /\ matched.orphanedDeclarations = At(Owners(matched.orphanManifest), orphans)
       /\ \A i \in DOMAIN all :
            /\ test(all[i].pattern, matched.urlPath)
            /\ all[i].function \notin NamesOf(matched.live) \cup NamesOf(matched.given)
            => /\ all[i].function \in Range(matched.orphanedDeclarations)
               /\ all[i].function \notin Range(matched.functionNames)

\* A call for /b has returned no function and the orphans b and i: both are
\* declared, only a has a function file.
C11_Witness ==
  /\ matched.done /\ matched.urlPath = "/b"
  /\ matched.live = <<FA>> /\ matched.given = <<FA>>
  /\ matched.functionNames = <<>>
  /\ matched.orphanedDeclarations = <<"b", "i">>

(***************************************************************************)
(* C12: functionNames is the sequence of the owning function names of      *)
(* exactly the routes of the manifest, those before the cache first and    *)
(* those after the cache next, whose pattern matches urlPath and whose     *)
(* function has no excluded pattern that matches urlPath, in the routes'   *)
(* order and with duplicates.                                              *)
(***************************************************************************)
C12_MatchingRoutesInOrder ==
  matched.done =>
    LET all == AllRoutes(matched.manifest)
        config == matched.manifest.function_config
        excluded(name) ==
          IF name \in DOMAIN config THEN Range(config[name].excluded_patterns) ELSE {}
        matching == {i \in DOMAIN all :
                       /\ test(all[i].pattern, matched.urlPath)
                       /\ \A pattern \in excluded(all[i].function) :
                            ~test(pattern, matched.urlPath)}
    IN matched.functionNames = At(Owners(matched.manifest), matching)

\* A call for /b has returned b twice, for its route before and its route
\* after the cache, and not a, whose route matches and whose excluded pattern
\* matches too.
C12_Witness ==
  /\ matched.done /\ matched.urlPath = "/b"
  /\ matched.functionNames = <<"b", "b">>
  /\ Route("a", "^/.*$") \in Range(matched.manifest.routes)
  /\ Route("b", "^/.*$") \in Range(matched.manifest.post_cache_routes)
  /\ "a" \in DOMAIN matched.manifest.function_config

(***************************************************************************)
(* C13: the runtime environment holds a variable other than DENO_REGION    *)
(* exactly when one of its sources is ui, account, addons or internal, and *)
(* then with its input value; DENO_REGION is "local" whatever the input    *)
(* says of it.                                                             *)
(***************************************************************************)
C13_EnvironmentFilter ==
  last.op = "constructor" =>
    /\ "DENO_REGION" \in DOMAIN env /\ env["DENO_REGION"] = "local"
    /\ \A key \in (DOMAIN envConfig \cup DOMAIN env) \ {"DENO_REGION"} :
         /\ key \in DOMAIN env <=>
              /\ key \in DOMAIN envConfig
              /\ Range(envConfig[key].sources) \cap {"ui", "account", "addons", "internal"} # {}
         /\ key \in DOMAIN env => env[key] = envConfig[key].value

\* The environment was made from an input that sets DENO_REGION in the UI, HOME
\* in the general scope only, and API_KEY in the general and internal scopes.
C13_Witness ==
  /\ last.op = "constructor"
  /\ DOMAIN envConfig = {"API_KEY", "HOME", "DENO_REGION"}
  /\ envConfig["DENO_REGION"] = [value |-> "set", sources |-> <<"ui">>]
  /\ envConfig["HOME"].sources = <<"general">>
  /\ envConfig["API_KEY"].sources = <<"general", "internal">>
  /\ DOMAIN env = {"API_KEY", "DENO_REGION"}
  /\ env["API_KEY"] = "set" /\ env["DENO_REGION"] = "local"

(***************************************************************************)
(* C14: when the rebuild of checkForAddedOrDeletedFunctions succeeds, it   *)
(* logs one "removed" notification per deleted function and then one       *)
(* "added" notification per new function, and no other of the two kinds;   *)
(* when the rebuild fails, or there is none, it logs none of them.         *)
(***************************************************************************)
C14_ChangesAnnounced ==
  [][last'.op = "checkForAddedOrDeletedFunctions" =>
       LET announced == SelectSeq(notifications', LAMBDA n : n.type \in {"removed", "added"})
       IN IF last'.phase = "build" /\ last'.isolate = "succeeded"
            THEN \E t \in DOMAIN tasks :
                   /\ tasks[t].kind = "checkForAddedOrDeletedFunctions"
                   /\ tasks[t].pc = "isolate"
                   /\ tasks' = Remove(Settle(tasks, t, "succeeded"), t)
                   /\ LET deleted == tasks[t].deleted
                          added == tasks[t].added
                      IN announced =
                           [i \in 1..(Len(deleted) + Len(added)) |->
                              IF i <= Len(deleted)
                                THEN [type |-> "removed", name |-> deleted[i].name]
                                ELSE [type |-> "added", name |-> added[i - Len(deleted)].name]]
            ELSE announced = <<>>]_vars

\* A check whose rebuild succeeded has just logged that a was removed, then
\* that a and b were added.
C14_Witness ==
  /\ last.op = "checkForAddedOrDeletedFunctions" /\ last.phase = "build"
  /\ last.isolate = "succeeded"
  /\ notifications = <<Note("removed", "a"), Note("added", "a"), Note("added", "b")>>

(***************************************************************************)
(* C15: after a build that returned a graph, functionPaths maps exactly    *)
(* the path of each current function to its name, and dependencyPaths maps *)
(* a path to exactly the functions whose own file's module in the graph    *)
(* has a file: dependency on that path; other modules and other            *)
(* dependencies give no entry.                                             *)
(***************************************************************************)
C15_DependencyIndex ==
  [][BuildSucceeded /\ ~degraded' =>
       \E t \in DOMAIN tasks :
         /\ tasks[t].pc = "isolate"
         /\ tasks' = Remove(Settle(tasks, t, "succeeded"), t)
         /\ LET modules == Range(GraphFor(tasks[t].args).modules)
                dependsOn(func, path) ==
                  \E module \in modules :
                    /\ module.specifier = [scheme |-> "file", path |-> func.path]
                    /\ \E d \in DOMAIN module.dependencies :
                         /\ "code" \in DOMAIN module.dependencies[d]
                         /\ "specifier" \in DOMAIN module.dependencies[d].code
                         /\ module.dependencies[d].code.specifier =
                              [scheme |-> "file", path |-> path]
                users(path) == {func.name : func \in {g \in Range(functions') : dependsOn(g, path)}}
                paths == DOMAIN dependencyPaths'
                           \cup {"/a.ts", "/dir2/a.ts", "/b.ts", "/dep.ts", "/util.ts",
                                 "/types.d.ts", "lib"}
            IN /\ DOMAIN functionPaths' = {func.path : func \in Range(functions')}
               /\ \A func \in Range(functions') : functionPaths'[func.path] = func.name
               /\ \A path \in paths :
                    IF users(path) = {} THEN path \notin DOMAIN dependencyPaths'
                    ELSE /\ path \in DOMAIN dependencyPaths'
                         /\ Range(dependencyPaths'[path]) = users(path)]_vars

\* A build of a and b has just returned a graph: both import /dep.ts, b also
\* imports /a.ts, a package and a types file; /dep.ts imports /util.ts.
C15_Witness ==
  /\ last.phase = "build" /\ last.isolate = "succeeded" /\ ~degraded
  /\ functions = <<FA2, FB>>
  /\ functionPaths = ("/dir2/a.ts" :> "a") @@ ("/b.ts" :> "b")
  /\ dependencyPaths = ("/dep.ts" :> <<"a", "b">>) @@ ("/a.ts" :> <<"b">>)

(***************************************************************************)
(* C16: when bundler.find fails, in scan or in                             *)
(* checkForAddedOrDeletedFunctions, the operation rejects, no build is     *)
(* invoked, and functions, declarationsFromSource, functionPaths,          *)
(* dependencyPaths and buildError stay as they are.                        *)
(***************************************************************************)
C16_DiscoveryFailure ==
  [][last'.op \in {"scan", "checkForAddedOrDeletedFunctions"}
       /\ last'.phase = "find" /\ last'.rejected =>
       /\ last'.finished
       /\ last'.builds = 0
       /\ SelectSeq(tasks', LAMBDA task : task.pc = "isolate")
            = SelectSeq(tasks, LAMBDA task : task.pc = "isolate")
       /\ last'.op = "scan" =>
            /\ initialScan'.state = "rejected"
            /\ \A t \in DOMAIN tasks' : tasks'[t].kind # "initialize"
       /\ last'.op = "checkForAddedOrDeletedFunctions" => Len(tasks') = Len(tasks) - 1
       /\ UNCHANGED <<functions, declarationsFromSource, functionPaths, dependencyPaths,
                      buildError>>]_vars

\* The discovery of a check has just failed, after a build had filled the
\* registry.
C16_Witness ==
  /\ last.op = "checkForAddedOrDeletedFunctions" /\ last.phase = "find" /\ last.rejected
  /\ functions # <<>>
  /\ declarationsFromSource # <<>>
  /\ functionPaths # EmptyMap

(***************************************************************************)
(* C17: in every quiescent state (initialize has completed, nothing is in  *)
(* flight) without a build error, every function of functions that has a   *)
(* declaration in declarationsFromConfig has an entry in                   *)
(* declarationsFromSource.  The code does not keep this: a function found  *)
(* while undeclared and declared by a later config change is never built.  *)
(***************************************************************************)
Quiescent ==
  /\ initialization # 0
  /\ initialScan.state = "resolved"
  /\ initBuilds = 1
  /\ tasks = <<>>
  /\ matches = <<>>

C17_DeclaredFunctionsConfigured ==
  Quiescent /\ buildError = NoError =>
    \A func \in Range(functions) :
      (\E declaration \in Range(declarationsFromConfig) : declaration.function = func.name)
        => \E declaration \in Range(declarationsFromSource) : declaration.function = func.name

(***************************************************************************)
(* C18: no function name is both in the functionNames and in the           *)
(* orphanedDeclarations a matchURLPath call returns, whatever add and      *)
(* delete events replace functions while the call is suspended.  The code  *)
(* reads this.functions twice, before its first and after its second await.*)
(***************************************************************************)
C18_MatchedOrOrphaned ==
  matched.done => Range(matched.functionNames) \cap Range(matched.orphanedDeclarations) = {}

(***************************************************************************)
(* C19: right after a build that succeeded and returned a graph, the       *)
(* function names of declarationsFromSource are those of functionPaths.    *)
(* The code takes the first from the list the build was called with and    *)
(* the second from this.functions as it is when the build ends.            *)
(***************************************************************************)
C19_SourceAndPathsAgree ==
  [][BuildSucceeded /\ ~degraded' =>
       {declaration.function : declaration \in Range(declarationsFromSource')}
         = {functionPaths'[path] : path \in DOMAIN functionPaths'}]_vars

(***************************************************************************)
(* C20: latest build wins.  When a build ends that was overtaken by one    *)
(* build, started after it and settled before it, both are over, and then  *)
(* buildError is none exactly if the later-started build succeeded, and    *)
(* declarationsFromSource is the one that build computed from its function *)
(* list.  (When the later-started build ends last, what it wrote stands.)  *)
(* The code lets the build that ends last win.                             *)
(***************************************************************************)
C20_LatestBuildWins ==
  [][last'.phase = "build" =>
       \A t \in DOMAIN tasks :
         /\ tasks[t].pc = "isolate"
         /\ tasks' = Remove(Settle(tasks, t, last'.isolate), t)
         /\ tasks[t].overtaken \in {"succeeded", "failed", "rejected"}
         => /\ buildError' = NoError <=> tasks[t].overtaken = "succeeded"
            /\ tasks[t].overtaken = "succeeded" =>
                 declarationsFromSource' =
                   [i \in DOMAIN tasks[t].overtaker |->
                      Spread([function |-> tasks[t].overtaker[i].name],
                             InSourceConfig(tasks[t].overtaker[i].name))]]_vars

====
